---- MODULE Spec2Model ----
(***************************************************************************)
(* Model of pygod's CoLA detector (pygod/models/cola.py) and of the GAE    *)
(* constructor (pygod/detector/gae.py).                                    *)
(*                                                                         *)
(* Tensors are modelled by their shape and their entries.  Entries that    *)
(* the network computes (logits, scores, parameters) are symbolic: a logit *)
(* is the pair <<row of h_pl, row of the context>> it is computed from, a  *)
(* score entry is the number of times it was assigned, the parameters are  *)
(* the number of optimiser steps that produced them.  A raised exception   *)
(* is a state of its own (pc ends in "_raised", exc names the error).      *)
(* A detector is fitted once and then queried any number of times.         *)
(***************************************************************************)
EXTENDS Integers, Sequences, FiniteSets, TLC

VARIABLES
    pc,          \* position of the running routine
    exc,         \* the exception that ended the routine, "" when none
    args,        \* arguments of the constructor call
    self,        \* attributes of the CoLA object
    G,           \* the input graph
    x,           \* feature matrix of G (fit / decision_function local)
    adj,         \* normalised dense adjacency of G plus identity
    model,       \* self.model: <<[training, opt_steps]>>, <<>> before fit
    grad,        \* state of the gradients: "none", "zero", "fresh"
    loss,        \* TRUE once the loss of the current batch is computed
    epoch,       \* loop counter of fit / round counter of decision_function
    all_idx,     \* shuffled node indices of the epoch / round
    subgraphs,   \* random-walk subgraph of every node (entry v+1 for node v)
    batch_idx,   \* loop counter of the batch loop
    idx,         \* node indices of the current batch
    ba,          \* padded adjacency blocks of the current batch
    bf,          \* padded feature blocks of the current batch
    logits,      \* output of the model on the current batch
    multi_epoch_ano_score,  \* fit: per epoch, per node, times assigned
    multi_round_ano_score,  \* decision_function: the same per round
    decision_scores_,       \* self.decision_scores_, <<>> before fit
    outlier_scores,         \* return value of decision_function
    c,           \* Discriminator.forward: context rows
    h_pl,        \* Discriminator.forward: target rows
    c_mi,        \* Discriminator.forward: shifted context rows
    scs,         \* Discriminator.forward: list of score blocks
    rnd,         \* Discriminator.forward: rounds done
    negsamp_round,  \* Discriminator.negsamp_round
    gargs,       \* arguments of the GAE constructor call, wrapped
    gae          \* attributes of the GAE object, wrapped; <<>> before __init__

ctorVars == <<args, self>>
fitVars == <<G, x, adj, model, grad, loss, epoch, all_idx, subgraphs,
             batch_idx, idx, ba, bf, logits, multi_epoch_ano_score,
             multi_round_ano_score, decision_scores_, outlier_scores>>
discVars == <<c, h_pl, c_mi, scs, rnd, negsamp_round>>
gaeVars == <<gargs, gae>>
vars == <<pc, exc, ctorVars, fitVars, discVars, gaeVars>>

----------------------------------------------------------------------------
(* Bounds of the model *)

MaxNodes == 4
MaxBatch == 3
MaxSubgraph == 5
MaxNegsamp == 2
MaxRounds == 2
MaxDiscBatch == 6
MaxNegRound == 4
MaxNeigh == 2
FtSize == 1

(* Program constants *)

WalkLength == 3
DefaultEpoch == 100
LargeEpoch == 400

----------------------------------------------------------------------------
(* Python values *)

\* An optional value: <<>> is None / an attribute that was never assigned.
None == <<>>

Some(v) == <<v>>

Min(a, b) == IF a < b THEN a ELSE b

Max(a, b) == IF a > b THEN a ELSE b

\* Normalisation of a slice bound of a sequence of length L.
SliceBound(i, L) == IF i < 0 THEN Max(i + L, 0) ELSE Min(i, L)

\* s[start:stop]
PySlice(s, start, stop) ==
    SubSeq(s, SliceBound(start, Len(s)) + 1, SliceBound(stop, Len(s)))

\* s[start:]
PySliceFrom(s, start) == SubSeq(s, SliceBound(start, Len(s)) + 1, Len(s))

\* s[:stop]
PySliceTo(s, stop) == SubSeq(s, 1, SliceBound(stop, Len(s)))

----------------------------------------------------------------------------
(* CoLA.__init__ *)

Datasets == {"cora", "citeseer", "pubmed", "Flickr", "ACM", "BlogCatalog",
             "other"}

LrDefault(dataset) ==
    IF dataset \in {"cora", "citeseer", "pubmed", "Flickr"} THEN "1e-3"
    ELSE IF dataset = "ACM" THEN "5e-4"
    ELSE IF dataset = "BlogCatalog" THEN "3e-3"
    ELSE "1e-3"

EpochDefault(dataset) ==
    IF dataset \in {"cora", "citeseer", "pubmed"} THEN DefaultEpoch
    ELSE IF dataset \in {"BlogCatalog", "Flickr", "ACM"} THEN LargeEpoch
    ELSE DefaultEpoch

\* self.lr is assigned only in the branch "lr is None", self.num_epoch only
\* in the branch "epoch is None"; otherwise the attribute is never created.
CoLAInit(a) ==
    [dataset |-> a.dataset,
     negsamp_ratio |-> a.negsamp_ratio,
     batch_size |-> a.batch_size,
     subgraph_size |-> a.subgraph_size,
     auc_test_rounds |-> a.auc_test_rounds,
     device |-> IF a.gpu >= 0 /\ a.cuda THEN "cuda" ELSE "cpu",
     lr |-> IF a.lr = None THEN Some(LrDefault(a.dataset)) ELSE None,
     num_epoch |-> IF a.epoch = None THEN Some(EpochDefault(a.dataset))
                   ELSE None]

NoSelf == [dataset |-> "", negsamp_ratio |-> 0, batch_size |-> 0,
           subgraph_size |-> 0, auc_test_rounds |-> 0, device |-> "",
           lr |-> None, num_epoch |-> None]

LrArgs == {None, Some("2e-3"), Some("1e-2")}

EpochArgs == {None, Some(1), Some(2)}

CtorArgs(datasets, lrs, epochs, batches, subs, negs, rounds, gpus, cudas) ==
    [dataset : datasets, lr : lrs, epoch : epochs, batch_size : batches,
     subgraph_size : subs, negsamp_ratio : negs, auc_test_rounds : rounds,
     gpu : gpus, cuda : cudas]

----------------------------------------------------------------------------
(* The input graph and its tensors *)

\* A graph on the nodes 0..n-1: node n-1 has an edge to node 0 and (from
\* three nodes on) to node 1, node 0 has a self loop.  The walk from node
\* n-1 has a choice, the walks from the other nodes have none.
Graph(n) ==
    [n |-> n,
     edges |-> {<<n - 1, j>> : j \in 0..Min(1, n - 2)} \cup {<<0, 0>>}]

Graphs == {Graph(n) : n \in 2..MaxNodes}

Nodes(g) == 0..(g.n - 1)

\* G.x: ft_size features per node, none of them zero.
X(g) == [v \in Nodes(g) |-> [j \in 1..FtSize |-> v + j]]

\* maybe_num_nodes: the number of nodes an edge list spans.
maybe_num_nodes(edges) ==
    IF edges = {} THEN 0
    ELSE 1 + CHOOSE m \in {e[1] : e \in edges} \cup {e[2] : e \in edges} :
                 \A e \in edges : e[1] <= m /\ e[2] <= m

\* to_dense_adj(edge_index)[0]
to_dense_adj(edges) ==
    [u \in 0..(maybe_num_nodes(edges) - 1) |->
        [v \in 0..(maybe_num_nodes(edges) - 1) |->
            IF <<u, v>> \in edges THEN 1 ELSE 0]]

\* A real number int + num / sqrt(den), in canonical form.
Real(int, num, den) ==
    IF num = 0 THEN <<int, 0, 1>>
    ELSE IF den = 1 THEN <<int + num, 0, 1>>
    ELSE <<int, num, den>>

Zero == Real(0, 0, 1)

One == Real(1, 0, 1)

RECURSIVE SumTo(_, _)
SumTo(f, k) == IF k < 0 THEN 0 ELSE f[k] + SumTo(f, k - 1)

\* adj.sum(1)
RowSum(a, u) == SumTo(a[u], Cardinality(DOMAIN a) - 1)

\* normalize_adj(adj) + eye: entry [r][c] of (A D)^T D is
\* A[c][r] / sqrt(d_r d_c), where an infinite d^-1/2 is replaced by 0.
normalize_adj(a) ==
    [r \in DOMAIN a |-> [cc \in DOMAIN a |->
        Real(IF r = cc THEN 1 ELSE 0,
             IF RowSum(a, r) > 0 /\ RowSum(a, cc) > 0 THEN a[cc][r] ELSE 0,
             IF RowSum(a, r) > 0 /\ RowSum(a, cc) > 0
                 THEN RowSum(a, r) * RowSum(a, cc) ELSE 1)]]

Adj(g) == normalize_adj(to_dense_adj(g.edges))

----------------------------------------------------------------------------
(* generate_rw_subgraph *)

\* One step of torch_cluster.random_walk: a node without out-edges stays.
WalkStep(g, v) ==
    IF \E e \in g.edges : e[1] = v
        THEN {e[2] : e \in {d \in g.edges : d[1] = v}}
        ELSE {v}

\* The walks of k more steps that extend the walks in ws.
RECURSIVE Extend(_, _, _)
Extend(g, ws, k) ==
    IF k = 0 THEN ws
    ELSE Extend(g,
                UNION {{Append(w, u) : u \in WalkStep(g, w[Len(w)])}
                          : w \in ws},
                k - 1)

\* The walks random_walk can return for the start node v: walk_length + 1
\* entries, the first of which is v.
random_walk(g, v) == Extend(g, {<<v>>}, WalkLength)

RECURSIVE TracesUpTo(_, _)
TracesUpTo(g, k) ==
    IF k = 0 THEN {<<>>}
    ELSE {Append(t, w) : t \in TracesUpTo(g, k - 1), w \in random_walk(g, k - 1)}

\* The lists generate_rw_subgraph can return; subgraph_size is not used.
generate_rw_subgraph(g, nb_nodes, subgraph_size) == TracesUpTo(g, nb_nodes)

\* random.shuffle(list(range(nb_nodes)))
Shuffles(nb_nodes) ==
    {[k \in 1..nb_nodes |-> p[k] - 1] : p \in Permutations(1..nb_nodes)}

----------------------------------------------------------------------------
(* Minibatches and padded tensors *)

\* batch_num without the batch for the remainder.
batch_num_no_remainder(nb_nodes, batch_size) == nb_nodes \div batch_size

batch_num(nb_nodes, batch_size) == nb_nodes \div batch_size + 1

BatchIdx(perm, b, nb_batches, batch_size) ==
    IF b /= nb_batches - 1
        THEN PySlice(perm, b * batch_size, (b + 1) * batch_size)
        ELSE PySliceFrom(perm, b * batch_size)

\* adj[:, subgraphs[i], :][:, :, subgraphs[i]]
CurAdj(dense, sub) ==
    [a \in 1..Len(sub) |-> [b \in 1..Len(sub) |-> dense[sub[a]][sub[b]]]]

\* x[:, subgraphs[i], :]
CurFeat(feats, sub) == [a \in 1..Len(sub) |-> feats[sub[a]]]

Rows(m) == Len(m)

Cols(m) == IF Len(m) = 0 THEN 0 ELSE Len(m[1])

\* one block of added_adj_zero_row: 1 x subgraph_size
added_adj_zero_row(subgraph_size) == <<[j \in 1..subgraph_size |-> Zero]>>

\* one block of added_adj_zero_col: (subgraph_size + 1) x 1, last entry 1
added_adj_zero_col(subgraph_size) ==
    [r \in 1..(subgraph_size + 1) |->
        <<IF r = subgraph_size + 1 THEN One ELSE Zero>>]

\* one block of added_feat_zero_row: 1 x ft_size
added_feat_zero_row(ft_size) == <<[j \in 1..ft_size |-> 0]>>

\* torch.cat along the row dimension and along the column dimension
CatRows(m1, m2) == m1 \o m2

CatCols(m1, m2) == [r \in 1..Rows(m1) |-> m1[r] \o m2[r]]

\* torch.cat raises on an empty list, and when the sizes of the other
\* dimensions differ.
PadFits(subs, subgraph_size) ==
    \A k \in 1..Len(subs) :
        /\ Len(subs[k]) = subgraph_size
        /\ Len(subs[k]) + 1 = subgraph_size + 1

PadAdj(cur_adj, subgraph_size) ==
    CatCols(CatRows(cur_adj, added_adj_zero_row(subgraph_size)),
            added_adj_zero_col(subgraph_size))

\* PadFeat with the zero row appended after the last row.
PadFeatAppended(cur_feat, ft_size) == cur_feat \o added_feat_zero_row(ft_size)

PadFeat(cur_feat, ft_size) ==
    PySliceTo(cur_feat, -1) \o added_feat_zero_row(ft_size)
        \o PySliceFrom(cur_feat, -1)

----------------------------------------------------------------------------
(* COLA_Base.forward and Discriminator.forward *)

\* c_mi = torch.cat((c_mi[-2:-1, :], c_mi[:-1, :]), 0)
Shift(cm) == PySlice(cm, -2, -1) \o PySliceTo(cm, -1)

RECURSIVE ShiftN(_, _)
ShiftN(cm, k) == IF k = 0 THEN cm ELSE Shift(ShiftN(cm, k - 1))

\* nn.Bilinear raises unless both inputs have the same number of rows;
\* the score of a row is a function of the target row and the context row.
BilinearFits(h, cc) == Len(h) = Len(cc)

Bilinear(h, cc) == [k \in 1..Len(h) |-> <<h[k], cc[k]>>]

DiscFits(cc, h, rounds) ==
    \A k \in 0..rounds : BilinearFits(h, ShiftN(cc, k))

RECURSIVE DiscLogits(_, _, _)
DiscLogits(cc, h, rounds) ==
    IF rounds = 0 THEN Bilinear(h, cc)
    ELSE DiscLogits(cc, h, rounds - 1) \o Bilinear(h, ShiftN(cc, rounds))

\* Row k of the readout c and row k of h_mv both come from block k of the
\* batch.
BatchRows(batch) == [k \in 1..Len(batch) |-> k]

----------------------------------------------------------------------------
(* Scores *)

\* Shape of a - b under broadcasting, 0 when the shapes do not fit.
Broadcast(a, b) ==
    IF a = b THEN a ELSE IF a = 1 THEN b ELSE IF b = 1 THEN a ELSE 0

\* logits[:cur] - logits[cur:] can be formed and assigned to cur entries.
ScoreFits(lg, cur) ==
    LET m == Broadcast(Len(PySliceTo(lg, cur)), Len(PySliceFrom(lg, cur)))
    IN  m /= 0 /\ (m = cur \/ m = 1)

Occurrences(s, v) == Cardinality({k \in 1..Len(s) : s[k] = v})

\* A score matrix np.zeros((rows, cols)).  The loops assign to one row
\* after the other and np.mean(axis=0) reads column sums only, so the
\* matrix is kept as the row being assigned (cur, with its index row) and
\* the column sums of the rows before it (sums).
Zeros(rows, cols) ==
    [nrows |-> rows,
     row |-> 0,
     cur |-> [j \in 1..cols |-> 0],
     sums |-> [j \in 1..cols |-> 0]]

NoScores == Zeros(0, 0)

RowOf(scores, r) ==
    IF scores.row = r THEN scores
    ELSE [nrows |-> scores.nrows,
          row |-> r,
          cur |-> [j \in 1..Len(scores.cur) |-> 0],
          sums |-> [j \in 1..Len(scores.cur) |->
                       scores.sums[j] + scores.cur[j]]]

\* multi_epoch_ano_score[epoch, idx] = ano_score
AssignScores(scores, r, batch) ==
    [RowOf(scores, r) EXCEPT !.cur =
        [j \in 1..Len(@) |-> @[j] + Occurrences(batch, j - 1)]]

\* np.mean(scores, axis=0): one entry per column; the entry records how
\* many assigned scores it averages.
MeanAxis0(scores) ==
    [j \in 1..Len(scores.cur) |-> scores.sums[j] + scores.cur[j]]

----------------------------------------------------------------------------
(* Values of the variables a specification does not use *)

FitIdle ==
    /\ G = [n |-> 0, edges |-> {}]
    /\ x = <<>>
    /\ adj = <<>>
    /\ model = None
    /\ grad = "none"
    /\ loss = FALSE
    /\ epoch = 0
    /\ all_idx = <<>>
    /\ subgraphs = <<>>
    /\ batch_idx = 0
    /\ idx = <<>>
    /\ ba = <<>>
    /\ bf = <<>>
    /\ logits = <<>>
    /\ multi_epoch_ano_score = NoScores
    /\ multi_round_ano_score = NoScores
    /\ decision_scores_ = <<>>
    /\ outlier_scores = <<>>

DiscIdle ==
    /\ c = <<>>
    /\ h_pl = <<>>
    /\ c_mi = <<>>
    /\ scs = <<>>
    /\ rnd = 0
    /\ negsamp_round = 0

GaeIdle ==
    /\ gargs = <<>>
    /\ gae = <<>>

CtorIdle ==
    /\ args = <<>>
    /\ self = NoSelf

----------------------------------------------------------------------------
(* Specification of the constructor alone *)

InitCtor ==
    /\ pc = "new"
    /\ exc = ""
    /\ args \in CtorArgs(Datasets, LrArgs, EpochArgs, {MaxBatch},
                         {WalkLength + 1}, {1}, {MaxRounds}, {-1, 0},
                         BOOLEAN)
    /\ self = NoSelf
    /\ FitIdle /\ DiscIdle /\ GaeIdle

Construct ==
    /\ pc = "new"
    /\ self' = CoLAInit(args)
    /\ pc' = "constructed"
    /\ UNCHANGED <<exc, args, fitVars, discVars, gaeVars>>

NextCtor == Construct

SpecCtor == InitCtor /\ [][NextCtor]_vars

----------------------------------------------------------------------------
(* CoLA.fit *)

NewModel == [training |-> TRUE, opt_steps |-> 0]

Raise(where, what) ==
    /\ pc' = where
    /\ exc' = what

\* Lines 200-231: the model is created, then the optimiser reads self.lr
\* and the score matrix reads self.num_epoch.
FitBegin ==
    /\ pc = "constructed"
    /\ \E g \in Graphs : G' = g
    /\ x' = X(G')
    /\ adj' = Adj(G')
    /\ model' = Some(NewModel)
    /\ IF self.lr = None
           THEN /\ Raise("fit_raised", "AttributeError: lr")
                /\ UNCHANGED <<multi_epoch_ano_score, epoch>>
       ELSE IF self.num_epoch = None
           THEN /\ Raise("fit_raised", "AttributeError: num_epoch")
                /\ UNCHANGED <<multi_epoch_ano_score, epoch>>
       ELSE /\ multi_epoch_ano_score' = Zeros(self.num_epoch[1], G'.n)
            /\ epoch' = 0
            /\ pc' = "fit_epoch"
            /\ exc' = ""
    /\ UNCHANGED <<ctorVars, grad, loss, all_idx, subgraphs, batch_idx, idx,
                   ba, bf, logits, multi_round_ano_score, decision_scores_,
                   outlier_scores, discVars, gaeVars>>

\* Lines 233-240: model.train(), shuffle, sample the subgraphs.
FitEpochStart ==
    /\ pc = "fit_epoch"
    /\ epoch < self.num_epoch[1]
    /\ model' = Some([model[1] EXCEPT !.training = TRUE])
    /\ LET shuffles == Shuffles(G.n)
           subvs == generate_rw_subgraph(G, G.n, self.subgraph_size)
       IN  \E perm \in shuffles, subv \in subvs :
               /\ all_idx' = perm
               /\ subgraphs' = subv
    /\ batch_idx' = 0
    /\ pc' = "fit_batch"
    /\ UNCHANGED <<exc, ctorVars, G, x, adj, grad, loss, epoch, idx, ba, bf, logits,
                   multi_epoch_ano_score, multi_round_ano_score,
                   decision_scores_, outlier_scores, discVars, gaeVars>>

\* Line 244
FitZeroGrad ==
    /\ pc = "fit_batch"
    /\ batch_idx < batch_num(G.n, self.batch_size)
    /\ grad' = "zero"
    /\ loss' = FALSE
    /\ pc' = "fit_assemble"
    /\ UNCHANGED <<exc, ctorVars, G, x, adj, model, epoch, all_idx, subgraphs,
                   batch_idx, idx, ba, bf, logits, multi_epoch_ano_score,
                   multi_round_ano_score, decision_scores_, outlier_scores,
                   discVars, gaeVars>>

\* Lines 246-279 (fit) and 357-387 (decision_function): slice the batch,
\* gather the blocks, pad them.
Assemble(next, raised) ==
    LET batch == BatchIdx(all_idx, batch_idx,
                          batch_num(G.n, self.batch_size), self.batch_size)
        subs == [k \in 1..Len(batch) |-> subgraphs[batch[k] + 1]]
    IN  /\ idx' = batch
        /\ IF Len(batch) = 0
               THEN /\ Raise(raised, "RuntimeError: cat of an empty list")
                    /\ UNCHANGED <<ba, bf>>
           ELSE IF ~PadFits(subs, self.subgraph_size)
               THEN /\ Raise(raised, "RuntimeError: cat sizes do not match")
                    /\ UNCHANGED <<ba, bf>>
           ELSE /\ ba' = [k \in 1..Len(batch) |->
                            PadAdj(CurAdj(adj, subs[k]),
                                   self.subgraph_size)]
                /\ bf' = [k \in 1..Len(batch) |->
                            PadFeat(CurFeat(x, subs[k]), FtSize)]
                /\ pc' = next
                /\ exc' = ""

FitAssemble ==
    /\ pc = "fit_assemble"
    /\ Assemble("fit_forward", "fit_raised")
    /\ UNCHANGED <<ctorVars, G, x, adj, model, grad, loss, epoch, all_idx, subgraphs,
                   batch_idx, logits, multi_epoch_ano_score,
                   multi_round_ano_score, decision_scores_, outlier_scores,
                   discVars, gaeVars>>

\* Lines 281 (fit) and 390 (decision_function): self.model(bf, ba)
Forward(next, raised) ==
    IF DiscFits(BatchRows(bf), BatchRows(bf), self.negsamp_ratio)
        THEN /\ logits' = DiscLogits(BatchRows(bf), BatchRows(bf),
                                     self.negsamp_ratio)
             /\ pc' = next
             /\ exc' = ""
        ELSE /\ Raise(raised, "RuntimeError: bilinear batch sizes differ")
             /\ UNCHANGED logits

FitForward ==
    /\ pc = "fit_forward"
    /\ Forward("fit_loss", "fit_raised")
    /\ UNCHANGED <<ctorVars, G, x, adj, model, grad, loss, epoch, all_idx, subgraphs,
                   batch_idx, idx, ba, bf, multi_epoch_ano_score,
                   multi_round_ano_score, decision_scores_, outlier_scores,
                   discVars, gaeVars>>

\* Lines 282-284
FitLoss ==
    /\ pc = "fit_loss"
    /\ loss' = TRUE
    /\ pc' = "fit_backward"
    /\ UNCHANGED <<exc, ctorVars, G, x, adj, model, grad, epoch, all_idx, subgraphs,
                   batch_idx, idx, ba, bf, logits, multi_epoch_ano_score,
                   multi_round_ano_score, decision_scores_, outlier_scores,
                   discVars, gaeVars>>

\* Line 286
FitBackward ==
    /\ pc = "fit_backward"
    /\ grad' = "fresh"
    /\ pc' = "fit_step"
    /\ UNCHANGED <<exc, ctorVars, G, x, adj, model, loss, epoch, all_idx, subgraphs,
                   batch_idx, idx, ba, bf, logits, multi_epoch_ano_score,
                   multi_round_ano_score, decision_scores_, outlier_scores,
                   discVars, gaeVars>>

\* Line 287
FitStep ==
    /\ pc = "fit_step"
    /\ model' = Some([model[1] EXCEPT !.opt_steps = @ + 1])
    /\ pc' = "fit_score"
    /\ UNCHANGED <<exc, ctorVars, G, x, adj, grad, loss, epoch, all_idx, subgraphs,
                   batch_idx, idx, ba, bf, logits, multi_epoch_ano_score,
                   multi_round_ano_score, decision_scores_, outlier_scores,
                   discVars, gaeVars>>

\* Lines 289-295.  idx, ba, bf and logits are not read again before the
\* next batch assigns them: they are cleared here.
FitScore ==
    /\ pc = "fit_score"
    /\ IF ScoreFits(logits, Len(idx))
           THEN /\ multi_epoch_ano_score' =
                       AssignScores(multi_epoch_ano_score, epoch, idx)
                /\ batch_idx' = batch_idx + 1
                /\ idx' = <<>>
                /\ ba' = <<>>
                /\ bf' = <<>>
                /\ logits' = <<>>
                /\ pc' = "fit_batch"
                /\ exc' = ""
           ELSE /\ Raise("fit_raised", "RuntimeError: shapes do not broadcast")
                /\ UNCHANGED <<multi_epoch_ano_score, batch_idx, idx, ba, bf,
                               logits>>
    /\ UNCHANGED <<ctorVars, G, x, adj, model, grad, loss, epoch, all_idx,
                   subgraphs, multi_round_ano_score, decision_scores_,
                   outlier_scores, discVars, gaeVars>>

\* The batch loop is exhausted (lines 297-303 only print).  all_idx and
\* subgraphs are not read again before the next epoch assigns them.
FitEpochEnd ==
    /\ pc = "fit_batch"
    /\ batch_idx = batch_num(G.n, self.batch_size)
    /\ epoch' = epoch + 1
    /\ all_idx' = <<>>
    /\ subgraphs' = <<>>
    /\ pc' = "fit_epoch"
    /\ UNCHANGED <<exc, ctorVars, G, x, adj, model, grad, loss, batch_idx,
                   idx, ba, bf, logits, multi_epoch_ano_score,
                   multi_round_ano_score, decision_scores_, outlier_scores,
                   discVars, gaeVars>>

\* Lines 305-309.  _process_decision_scores belongs to BaseDetector, which
\* derives the threshold and the labels from decision_scores_.
FitFinish ==
    /\ pc = "fit_epoch"
    /\ epoch = self.num_epoch[1]
    /\ decision_scores_' = MeanAxis0(multi_epoch_ano_score)
    /\ pc' = "fitted"
    /\ UNCHANGED <<exc, ctorVars, G, x, adj, model, grad, loss, epoch, all_idx,
                   subgraphs, batch_idx, idx, ba, bf, logits,
                   multi_epoch_ano_score, multi_round_ano_score,
                   outlier_scores, discVars, gaeVars>>

Fit ==
    \/ FitBegin
    \/ FitEpochStart
    \/ FitZeroGrad
    \/ FitAssemble
    \/ FitForward
    \/ FitLoss
    \/ FitBackward
    \/ FitStep
    \/ FitScore
    \/ FitEpochEnd
    \/ FitFinish

----------------------------------------------------------------------------
(* CoLA.decision_function *)

\* Lines 327-346
DFBegin ==
    /\ pc = "fitted"
    /\ \E g \in Graphs : G' = g
    /\ x' = X(G')
    /\ adj' = Adj(G')
    /\ multi_round_ano_score' = Zeros(self.auc_test_rounds, G'.n)
    /\ model' = Some([model[1] EXCEPT !.training = FALSE])
    /\ epoch' = 0
    /\ pc' = "df_round"
    /\ UNCHANGED <<exc, ctorVars, grad, loss, all_idx, subgraphs, batch_idx,
                   idx, ba, bf, logits, multi_epoch_ano_score,
                   decision_scores_, outlier_scores, discVars, gaeVars>>

\* Lines 348-353
DFRoundStart ==
    /\ pc = "df_round"
    /\ epoch < self.auc_test_rounds
    /\ LET shuffles == Shuffles(G.n)
           subvs == generate_rw_subgraph(G, G.n, self.subgraph_size)
       IN  \E perm \in shuffles, subv \in subvs :
               /\ all_idx' = perm
               /\ subgraphs' = subv
    /\ batch_idx' = 0
    /\ pc' = "df_assemble"
    /\ UNCHANGED <<exc, ctorVars, G, x, adj, model, grad, loss, epoch, idx, ba, bf,
                   logits, multi_epoch_ano_score, multi_round_ano_score,
                   decision_scores_, outlier_scores, discVars, gaeVars>>

DFAssemble ==
    /\ pc = "df_assemble"
    /\ batch_idx < batch_num(G.n, self.batch_size)
    /\ Assemble("df_forward", "df_raised")
    /\ UNCHANGED <<ctorVars, G, x, adj, model, grad, loss, epoch, all_idx, subgraphs,
                   batch_idx, logits, multi_epoch_ano_score,
                   multi_round_ano_score, decision_scores_, outlier_scores,
                   discVars, gaeVars>>

\* DFForward as the training step of fit: it also steps the optimiser.
DFForwardSteps ==
    /\ pc = "df_forward"
    /\ Forward("df_score", "df_raised")
    /\ model' = Some([model[1] EXCEPT !.opt_steps = @ + 1])
    /\ UNCHANGED <<ctorVars, G, x, adj, grad, loss, epoch, all_idx, subgraphs,
                   batch_idx, idx, ba, bf, multi_epoch_ano_score,
                   multi_round_ano_score, decision_scores_, outlier_scores,
                   discVars, gaeVars>>

\* Lines 389-394, under torch.no_grad()
DFForward ==
    /\ pc = "df_forward"
    /\ Forward("df_score", "df_raised")
    /\ UNCHANGED <<ctorVars, G, x, adj, model, grad, loss, epoch, all_idx, subgraphs,
                   batch_idx, idx, ba, bf, multi_epoch_ano_score,
                   multi_round_ano_score, decision_scores_, outlier_scores,
                   discVars, gaeVars>>

\* Lines 396-399
DFScore ==
    /\ pc = "df_score"
    /\ IF ScoreFits(logits, Len(idx))
           THEN /\ multi_round_ano_score' =
                       AssignScores(multi_round_ano_score, epoch, idx)
                /\ batch_idx' = batch_idx + 1
                /\ idx' = <<>>
                /\ ba' = <<>>
                /\ bf' = <<>>
                /\ logits' = <<>>
                /\ pc' = "df_assemble"
                /\ exc' = ""
           ELSE /\ Raise("df_raised", "RuntimeError: shapes do not broadcast")
                /\ UNCHANGED <<multi_round_ano_score, batch_idx, idx, ba, bf,
                               logits>>
    /\ UNCHANGED <<ctorVars, G, x, adj, model, grad, loss, epoch, all_idx,
                   subgraphs, multi_epoch_ano_score, decision_scores_,
                   outlier_scores, discVars, gaeVars>>

DFRoundEnd ==
    /\ pc = "df_assemble"
    /\ batch_idx = batch_num(G.n, self.batch_size)
    /\ epoch' = epoch + 1
    /\ all_idx' = <<>>
    /\ subgraphs' = <<>>
    /\ pc' = "df_round"
    /\ UNCHANGED <<exc, ctorVars, G, x, adj, model, grad, loss, batch_idx,
                   idx, ba, bf, logits, multi_epoch_ano_score,
                   multi_round_ano_score, decision_scores_, outlier_scores,
                   discVars, gaeVars>>

\* Lines 401-403: the call returns; the detector can be asked again.
DFFinish ==
    /\ pc = "df_round"
    /\ epoch = self.auc_test_rounds
    /\ outlier_scores' = MeanAxis0(multi_round_ano_score)
    /\ pc' = "fitted"
    /\ UNCHANGED <<exc, ctorVars, G, x, adj, model, grad, loss, epoch, all_idx,
                   subgraphs, batch_idx, idx, ba, bf, logits,
                   multi_epoch_ano_score, multi_round_ano_score,
                   decision_scores_, discVars, gaeVars>>

DecisionFunction ==
    \/ DFBegin
    \/ DFRoundStart
    \/ DFAssemble
    \/ DFForward
    \/ DFScore
    \/ DFRoundEnd
    \/ DFFinish

----------------------------------------------------------------------------
(* Specification of a detector that is constructed, fitted and queried *)

Init ==
    /\ pc = "constructed"
    /\ exc = ""
    /\ args \in CtorArgs({"cora"}, {None, Some("2e-3")}, {None, Some(2)},
                         1..MaxBatch, 1..MaxSubgraph, 1..MaxNegsamp,
                         {MaxRounds}, {-1}, {FALSE})
    /\ self = CoLAInit(args)
    /\ FitIdle /\ DiscIdle /\ GaeIdle

Next == Fit \/ DecisionFunction

Spec == Init /\ [][Next]_vars

----------------------------------------------------------------------------
(* Discriminator.forward, one loop iteration per step *)

RECURSIVE Cat(_)
Cat(blocks) == IF blocks = <<>> THEN <<>> ELSE Head(blocks) \o Cat(Tail(blocks))

InitDisc ==
    /\ pc = "disc_call"
    /\ exc = ""
    /\ \E B \in 1..MaxDiscBatch :
           /\ c = [k \in 1..B |-> k]
           /\ h_pl = [k \in 1..B |-> k]
    /\ negsamp_round \in 1..MaxNegRound
    /\ c_mi = <<>>
    /\ scs = <<>>
    /\ rnd = 0
    /\ CtorIdle /\ FitIdle /\ GaeIdle

\* Lines 571-576
DiscPositive ==
    /\ pc = "disc_call"
    /\ scs' = <<Bilinear(h_pl, c)>>
    /\ c_mi' = c
    /\ pc' = "disc_loop"
    /\ UNCHANGED <<exc, c, h_pl, rnd, negsamp_round, ctorVars, fitVars,
                   gaeVars>>

\* Lines 577-579
DiscRound ==
    /\ pc = "disc_loop"
    /\ rnd < negsamp_round
    /\ c_mi' = Shift(c_mi)
    /\ IF BilinearFits(h_pl, c_mi')
           THEN /\ scs' = Append(scs, Bilinear(h_pl, c_mi'))
                /\ rnd' = rnd + 1
                /\ UNCHANGED <<pc, exc>>
           ELSE /\ Raise("disc_raised",
                         "RuntimeError: bilinear batch sizes differ")
                /\ UNCHANGED <<scs, rnd>>
    /\ UNCHANGED <<c, h_pl, negsamp_round, ctorVars, fitVars, gaeVars>>

\* Lines 581-583
DiscFinish ==
    /\ pc = "disc_loop"
    /\ rnd = negsamp_round
    /\ logits' = Cat(scs)
    /\ pc' = "disc_done"
    /\ UNCHANGED <<exc, ctorVars, G, x, adj, model, grad, loss, epoch,
                   all_idx, subgraphs, batch_idx, idx, ba, bf,
                   multi_epoch_ano_score, multi_round_ano_score,
                   decision_scores_, outlier_scores, discVars, gaeVars>>

NextDisc == DiscPositive \/ DiscRound \/ DiscFinish

SpecDisc == InitDisc /\ [][NextDisc]_vars

----------------------------------------------------------------------------
(* GAE *)

Backbones == {"GCN", "MLP", "GAT"}

\* GAEInit that warns about MLP but hands num_neigh on as it was passed.
GAEInitKeepsNeigh(a) ==
    [recon_s |-> a.recon_s,
     sigmoid_s |-> a.sigmoid_s,
     warned |-> a.num_neigh /= 0 /\ a.backbone = "MLP",
     base |-> [backbone |-> a.backbone,
               batch_size |-> a.batch_size,
               num_neigh |-> a.num_neigh,
               save_emb |-> a.save_emb],
     emb |-> None,
     target |-> ""]

\* GAE.__init__: the attributes it sets and the keyword arguments it hands
\* to DeepDetector.__init__.
GAEInit(a) ==
    [recon_s |-> a.recon_s,
     sigmoid_s |-> a.sigmoid_s,
     warned |-> a.num_neigh /= 0 /\ a.backbone = "MLP",
     base |-> [backbone |-> a.backbone,
               batch_size |-> a.batch_size,
               num_neigh |-> IF a.num_neigh /= 0 /\ a.backbone = "MLP"
                                 THEN 0 ELSE a.num_neigh,
               save_emb |-> a.save_emb],
     emb |-> None,
     target |-> ""]

\* GAE.init_model: the embedding buffer exists only with save_emb.
GAEInitModel(obj) ==
    [obj EXCEPT !.emb = IF obj.base.save_emb THEN Some("zeros") ELSE None]

\* GAE.forward_model: the tensor the reconstruction is compared with.
GAEForwardModel(obj) ==
    [obj EXCEPT !.target = IF obj.recon_s THEN "s" ELSE "x"]

InitGAE ==
    /\ pc = "gae_new"
    /\ exc = ""
    /\ gargs \in {Some(a) : a \in [num_neigh : -1..MaxNeigh,
                                   backbone : Backbones,
                                   batch_size : {0},
                                   recon_s : BOOLEAN,
                                   sigmoid_s : {FALSE},
                                   save_emb : BOOLEAN]}
    /\ gae = None
    /\ CtorIdle /\ FitIdle /\ DiscIdle

GAEConstruct ==
    /\ pc = "gae_new"
    /\ gae' = Some(GAEInit(gargs[1]))
    /\ pc' = "gae_constructed"
    /\ UNCHANGED <<exc, gargs, ctorVars, fitVars, discVars>>

GAEModel ==
    /\ pc = "gae_constructed"
    /\ gae' = Some(GAEInitModel(gae[1]))
    /\ pc' = "gae_model"
    /\ UNCHANGED <<exc, gargs, ctorVars, fitVars, discVars>>

GAEForward ==
    /\ pc = "gae_model"
    /\ gae' = Some(GAEForwardModel(gae[1]))
    /\ pc' = "gae_forward"
    /\ UNCHANGED <<exc, gargs, ctorVars, fitVars, discVars>>

NextGAE == GAEConstruct \/ GAEModel \/ GAEForward

SpecGAE == InitGAE /\ [][NextGAE]_vars

----------------------------------------------------------------------------
(* Properties *)

FitLoopPcs == {"fit_batch", "fit_assemble", "fit_forward", "fit_loss",
               "fit_backward", "fit_step", "fit_score"}

DFLoopPcs == {"df_assemble", "df_forward", "df_score"}

\* The batches of the running epoch / round.
Batches ==
    [b \in 0..(batch_num(G.n, self.batch_size) - 1) |->
        BatchIdx(all_idx, b, batch_num(G.n, self.batch_size),
                 self.batch_size)]

\* Node v occurs once in one of the batches bt and in no other.
InOneBatch(bt, v) ==
    \E b \in DOMAIN bt :
        /\ Occurrences(bt[b], v) = 1
        /\ \A d \in DOMAIN bt \ {b} : Occurrences(bt[d], v) = 0

\* The nodes of the batches before batch_idx have been scored once in the
\* row of the epoch / round, the others have not been scored.
WrittenAsBatched(bt, scores) ==
    LET row == RowOf(scores, epoch).cur
    IN  \A v \in Nodes(G) :
            row[v + 1] =
                IF \E b \in DOMAIN bt :
                       b < batch_idx /\ Occurrences(bt[b], v) > 0
                    THEN 1 ELSE 0

\* Every one of the finished rows has given each node exactly one score.
RowsComplete(scores, cols) ==
    /\ Len(scores.cur) = cols
    /\ \A j \in 1..cols : MeanAxis0(scores)[j] = epoch
    /\ epoch > 0 => \A j \in 1..cols : scores.cur[j] = 1

\* C1: after CoLA.__init__, self.lr and self.num_epoch are both defined,
\* and each equals the passed value when one was passed and the dataset
\* default otherwise.
C1_LrAndEpochDefined ==
    pc = "constructed" =>
        /\ self.lr /= None
        /\ self.num_epoch /= None
        /\ self.lr = IF args.lr /= None THEN args.lr
                     ELSE Some(LrDefault(args.dataset))
        /\ self.num_epoch = IF args.epoch /= None THEN args.epoch
                            ELSE Some(EpochDefault(args.dataset))

\* C2: in every epoch of fit and every round of decision_function each
\* node index 0..N-1 lies in exactly one batch; its entry of the row of
\* the epoch / round is assigned exactly once (by the batch it lies in), so
\* every finished row has every entry assigned once, and the results of
\* fit and of decision_function have N entries, one per node.
C2_BatchesPartitionNodes ==
    /\ all_idx /= <<>> =>
           LET bt == Batches
           IN  /\ \A v \in Nodes(G) : InOneBatch(bt, v)
               /\ pc \in FitLoopPcs \cup {"fit_raised"} =>
                      WrittenAsBatched(bt, multi_epoch_ano_score)
               /\ pc \in DFLoopPcs \cup {"df_raised"} =>
                      WrittenAsBatched(bt, multi_round_ano_score)
    /\ pc = "fit_epoch" => RowsComplete(multi_epoch_ano_score, G.n)
    /\ pc = "df_round" => RowsComplete(multi_round_ano_score, G.n)
    /\ (pc = "fitted" /\ outlier_scores = <<>>) =>
           /\ Len(decision_scores_) = G.n
           /\ \A j \in 1..G.n : decision_scores_[j] = self.num_epoch[1]
    /\ (pc = "fitted" /\ outlier_scores /= <<>>) =>
           /\ Len(outlier_scores) = G.n
           /\ \A j \in 1..G.n : outlier_scores[j] = self.auc_test_rounds

\* An epoch of fit has scored two batches, and with them every node once.
C2_Witness ==
    /\ pc = "fit_batch"
    /\ batch_idx >= 2
    /\ \A v \in Nodes(G) : RowOf(multi_epoch_ano_score, epoch).cur[v + 1] = 1

\* C3: for every subgraph_size >= 1 the subgraph sampled for each node has
\* exactly subgraph_size entries, and the padding tensors fit it.
C3_SubgraphHasConfiguredSize ==
    /\ subgraphs /= <<>> =>
           \A v \in Nodes(G) : Len(subgraphs[v + 1]) = self.subgraph_size
    /\ exc /= "RuntimeError: cat sizes do not match"

\* C4: the target of the subgraph assembled for node i (its last entry,
\* whose features become the last row of the feature block) is node i.
C4_TargetIsTheNode ==
    bf /= <<>> =>
        \A k \in 1..Len(idx) :
            /\ subgraphs[idx[k] + 1][Len(subgraphs[idx[k] + 1])] = idx[k]
            /\ bf[k][Len(bf[k])] = x[idx[k]]

\* C5: for every batch size B >= 1, after every negative-sampling round
\* the shifted context rows are a permutation of the context rows: each
\* original row occurs exactly once.
C5_ShiftIsPermutation ==
    /\ pc /= "disc_raised"
    /\ (pc \in {"disc_loop", "disc_done"} /\ rnd >= 1) =>
           /\ Len(c_mi) = Len(c)
           /\ \A k \in 1..Len(c) : Occurrences(c_mi, c[k]) = 1

\* C6: fit runs exactly num_epoch epochs and ends with the decision scores
\* set; in every batch the loss is computed before the backward pass and
\* the backward pass runs before the single optimiser step.
C6_FitRunsAllEpochs ==
    /\ pc /= "fit_raised"
    /\ pc = "fit_backward" => loss /\ grad = "zero"
    /\ pc = "fit_step" => loss /\ grad = "fresh"
    /\ pc = "fitted" =>
           /\ decision_scores_ /= <<>>
           /\ multi_epoch_ano_score.nrows = self.num_epoch[1]
           /\ model[1].opt_steps =
                  self.num_epoch[1]
                      * batch_num(Len(decision_scores_), self.batch_size)

\* What fit leaves behind: the parameters (the optimiser steps that
\* produced them), the decision scores and the attributes.
FittedState == <<model[1].opt_steps, decision_scores_, self>>

\* C7: no step of decision_function steps the optimiser, updates the
\* parameters or modifies decision_scores_, in any round of any call.
C7_DecisionFunctionKeepsFit ==
    [][(pc \in ({"fitted", "df_round"} \cup DFLoopPcs)) =>
           (FittedState' = FittedState)]_vars

\* decision_function has run all its rounds and has returned.
C7_Witness ==
    /\ pc = "fitted"
    /\ outlier_scores /= <<>>
    /\ model[1].training = FALSE
    /\ model[1].opt_steps > 0

\* C8: with the MLP backbone DeepDetector receives num_neigh = 0 whatever
\* was passed, and the warning is issued only when a non-zero value was
\* passed; with any other backbone num_neigh is passed through.
C8_MLPDropsNeighbours ==
    pc /= "gae_new" =>
        /\ gargs[1].backbone = "MLP" => gae[1].base.num_neigh = 0
        /\ gargs[1].backbone /= "MLP" =>
               gae[1].base.num_neigh = gargs[1].num_neigh
        /\ gae[1].warned =>
               gargs[1].backbone = "MLP" /\ gargs[1].num_neigh /= 0

\* GAE was constructed with MLP and a non-zero num_neigh.
C8_Witness ==
    /\ pc = "gae_constructed"
    /\ gargs[1].backbone = "MLP"
    /\ gargs[1].num_neigh = MaxNeigh
    /\ gae[1].base.num_neigh = 0
    /\ gae[1].warned

\* C9: in every block of a padded batch, with S the number of sampled
\* subgraph nodes: the appended row S and column S of the adjacency block
\* are zero except for entry [S,S] = 1 and the S x S block is the
\* adjacency of the subgraph; rows 0..S-2 of the feature block are the
\* features of positions 0..S-2, row S-1 is zero and row S holds the
\* features of position S-1.
C9_PaddedLayout ==
    ba /= <<>> =>
        \A k \in 1..Len(idx) :
            LET sub == subgraphs[idx[k] + 1]
                S == Len(sub)
            IN  /\ Len(ba[k]) = S + 1
                /\ \A r \in 1..(S + 1) : Len(ba[k][r]) = S + 1
                /\ \A j \in 1..S : /\ ba[k][S + 1][j] = Zero
                                   /\ ba[k][j][S + 1] = Zero
                /\ ba[k][S + 1][S + 1] = One
                /\ \A a \in 1..S : \A b \in 1..S :
                       ba[k][a][b] = adj[sub[a]][sub[b]]
                /\ Len(bf[k]) = S + 1
                /\ \A j \in 1..(S - 1) : bf[k][j] = x[sub[j]]
                /\ bf[k][S] = [j \in 1..FtSize |-> 0]
                /\ bf[k][S + 1] = x[sub[S]]

\* A batch of at least two blocks is padded, and one of the blocks holds
\* an adjacency entry that is neither 0 nor 1.
C9_Witness ==
    /\ pc = "fit_forward"
    /\ Len(idx) >= 2
    /\ \E k \in 1..Len(ba) : \E a, b \in 1..(WalkLength + 1) :
           ba[k][a][b] \notin {Zero, One}

====
